---- MODULE Spec2Model ----
(***************************************************************************)
(* nodejs-tester/index.js holds two scripts.                               *)
(*                                                                         *)
(* The replay script (lines 1-36) reads a recorded event stream, feeds     *)
(* its records to readUIMessageStream through a ReadableStream whose       *)
(* start callback parses the whole file, drains the resulting stream of    *)
(* States keeping the last one, and writes it to standard.json.            *)
(*                                                                         *)
(* The compare script (lines 39-59) diffs standard.json against            *)
(* result.json with json-diff-kit and prints every record that is not      *)
(* `equal`.                                                                *)
(*                                                                         *)
(* Text is modelled as a sequence of one-character strings, so that        *)
(* split, trim, slice, JSON.parse and JSON.stringify act on characters.    *)
(***************************************************************************)
EXTENDS Integers, Sequences, FiniteSets, TLC

VARIABLES
    recording,   \* the records the recorded file was made of (environment)
    content,     \* fs.readFileSync('../example-stream-data.txt')
    parts,       \* content.split('\n\n'), the array forEach walks
    idx,         \* number of array elements forEach has visited
    queue,       \* chunks enqueued on the ReadableStream's controller
    closed,      \* controller.close() has been called
    acc,         \* readUIMessageStream: the State accumulated so far
    out,         \* readUIMessageStream: States emitted, not yet read
    outState,    \* readUIMessageStream: "open", "closed" or "errored"
    last,        \* `last` of the reader loop
    pc,          \* position of the replay script
    err,         \* the exception that ended the script, if any
    disk,        \* ../standard.json
    standard,    \* compare script: JSON.parse of standard.json
    result,      \* compare script: JSON.parse of result.json
    diffResult,  \* compare script: what differ.diff returned
    outer,       \* compare script: outer forEach, sequences entered
    inner,       \* compare script: inner forEach, records visited
    console,     \* compare script: lines printed by console.log
    dpc          \* position of the compare script

replayVars == <<recording, content, parts, idx, queue, closed, acc, out,
                outState, last, pc, err, disk>>
compareVars == <<standard, result, diffResult, outer, inner, console, dpc>>
vars == <<recording, content, parts, idx, queue, closed, acc, out, outState,
          last, pc, err, disk, standard, result, diffResult, outer, inner,
          console, dpc>>

(***************************************************************************)
(* Bounds of the model.                                                    *)
(***************************************************************************)
MaxRecords == 3
MaxItems == 2

(***************************************************************************)
(* Characters and text.                                                    *)
(***************************************************************************)
NL == "\n"
SP == " "
QUOTE == "\""

IsSpace(c) == c \in {NL, SP}

\* String.prototype.trim: drop leading and trailing white space.
Trim(s) ==
    LET keep == {i \in 1..Len(s) : ~IsSpace(s[i])} IN
    IF keep = {} THEN <<>>
    ELSE LET lo == CHOOSE i \in keep : \A j \in keep : i <= j
             hi == CHOOSE i \in keep : \A j \in keep : j <= i
         IN SubSeq(s, lo, hi)

\* String.prototype.slice(n) with n >= 0: drop the first n characters.
Slice(s, n) == SubSeq(s, n + 1, Len(s))

\* First index at or after `from` where the separator "\n\n" starts, or 0.
IndexOfSeparator(s, from) ==
    LET hits == {i \in from..(Len(s) - 1) : s[i] = NL /\ s[i + 1] = NL} IN
    IF hits = {} THEN 0 ELSE CHOOSE i \in hits : \A j \in hits : i <= j

\* String.prototype.split('\n\n'): separators are found left to right and
\* do not overlap; a text without separator is one part.
RECURSIVE Split(_)
Split(s) ==
    LET i == IndexOfSeparator(s, 1) IN
    IF i = 0 THEN <<s>>
    ELSE <<SubSeq(s, 1, i - 1)>> \o Split(SubSeq(s, i + 2, Len(s)))

(***************************************************************************)
(* JSON values.  Every value has the same four fields so that values of    *)
(* different kinds can be compared.                                        *)
(***************************************************************************)
Undefined == [kind |-> "undefined", chars |-> <<>>, keys |-> <<>>, vals |-> <<>>]
Str(cs) == [kind |-> "string", chars |-> cs, keys |-> <<>>, vals |-> <<>>]
Arr(items) == [kind |-> "array", chars |-> <<>>, keys |-> <<>>, vals |-> items]
Obj(ks, vs) == [kind |-> "object", chars |-> <<>>, keys |-> ks, vals |-> vs]

Ok(v, n) == [ok |-> TRUE, val |-> v, next |-> n]
Fail(n) == [ok |-> FALSE, val |-> Undefined, next |-> n]

SkipSpace(s, i) ==
    LET rest == {j \in i..Len(s) : ~IsSpace(s[j])} IN
    IF rest = {} THEN Len(s) + 1 ELSE CHOOSE j \in rest : \A k \in rest : j <= k

\* A JSON string starting at the quote s[i]: up to the next quote; a raw
\* line break inside a string is not allowed.
ParseString(s, i) ==
    LET ends == {j \in (i + 1)..Len(s) : s[j] = QUOTE} IN
    IF ends = {} THEN Fail(Len(s) + 1)
    ELSE LET j == CHOOSE e \in ends : \A k \in ends : e <= k IN
         IF \E k \in (i + 1)..(j - 1) : s[k] = NL
         THEN Fail(CHOOSE k \in (i + 1)..(j - 1) : s[k] = NL)
         ELSE Ok(Str(SubSeq(s, i + 1, j - 1)), j + 1)

\* The index of key k in keys, or 0.
KeyIndex(keys, k) ==
    IF \E n \in 1..Len(keys) : keys[n] = k
    THEN CHOOSE n \in 1..Len(keys) : keys[n] = k ELSE 0

\* An object with member k: v added; a repeated key keeps its place and
\* takes the later value.
WithMember(o, k, v) ==
    LET n == KeyIndex(o.keys, k) IN
    IF n = 0 THEN Obj(Append(o.keys, k), Append(o.vals, v))
    ELSE Obj(o.keys, [o.vals EXCEPT ![n] = v])

\* A JSON value starting at or after s[i].  The texts of the model hold no
\* digit, no escape and not the letters of true, false or null, so a value
\* is a string, an array or an object.
RECURSIVE ParseValue(_, _)
RECURSIVE ParseElements(_, _, _)
RECURSIVE ParseMembers(_, _, _)

\* After '[' or ',': a value, then ',' and more, or ']'.
ParseElements(s, i, items) ==
    LET v == ParseValue(s, i) IN
    IF ~v.ok THEN v
    ELSE LET e == SkipSpace(s, v.next) IN
         IF e > Len(s) THEN Fail(e)
         ELSE IF s[e] = "]" THEN Ok(Arr(Append(items, v.val)), e + 1)
         ELSE IF s[e] = "," THEN ParseElements(s, e + 1, Append(items, v.val))
         ELSE Fail(e)

\* After '{' or ',': "key" : value, then ',' and more, or '}'.
ParseMembers(s, i, o) ==
    LET q == SkipSpace(s, i) IN
    IF q > Len(s) \/ s[q] # QUOTE THEN Fail(q)
    ELSE LET k == ParseString(s, q) IN
         IF ~k.ok THEN k
         ELSE LET c == SkipSpace(s, k.next) IN
              IF c > Len(s) \/ s[c] # ":" THEN Fail(c)
              ELSE LET v == ParseValue(s, c + 1) IN
                   IF ~v.ok THEN v
                   ELSE LET e == SkipSpace(s, v.next)
                            m == WithMember(o, k.val.chars, v.val)
                        IN IF e > Len(s) THEN Fail(e)
                           ELSE IF s[e] = "}" THEN Ok(m, e + 1)
                           ELSE IF s[e] = "," THEN ParseMembers(s, e + 1, m)
                           ELSE Fail(e)

ParseValue(s, i) ==
    LET p == SkipSpace(s, i) IN
    IF p > Len(s) THEN Fail(p)
    ELSE IF s[p] = QUOTE THEN ParseString(s, p)
    ELSE IF s[p] = "[" THEN
        LET q == SkipSpace(s, p + 1) IN
        IF q <= Len(s) /\ s[q] = "]" THEN Ok(Arr(<<>>), q + 1)
        ELSE ParseElements(s, p + 1, <<>>)
    ELSE IF s[p] = "{" THEN
        LET q == SkipSpace(s, p + 1) IN
        IF q <= Len(s) /\ s[q] = "}" THEN Ok(Obj(<<>>, <<>>), q + 1)
        ELSE ParseMembers(s, p + 1, Obj(<<>>, <<>>))
    ELSE Fail(p)

\* JSON.parse(text): one value, then nothing but white space.
JSONParse(s) ==
    LET v == ParseValue(s, 1) IN
    IF ~v.ok THEN v
    ELSE IF SkipSpace(s, v.next) <= Len(s) THEN Fail(SkipSpace(s, v.next))
    ELSE v

(***************************************************************************)
(* JSON.stringify(value, null, 2).  Of undefined it returns undefined,     *)
(* which is no text: `defined` tells the two apart.                        *)
(***************************************************************************)
RECURSIVE Spaces(_)
Spaces(n) == IF n = 0 THEN <<>> ELSE <<SP>> \o Spaces(n - 1)

Quoted(cs) == <<QUOTE>> \o cs \o <<QUOTE>>

RECURSIVE StringifyAt(_, _)
RECURSIVE Members(_, _, _)
Members(v, k, level) ==
    IF k > Len(v.vals) THEN <<>>
    ELSE (IF k > 1 THEN <<",">> ELSE <<>>)
         \o <<NL>> \o Spaces(2 * (level + 1))
         \o (IF v.kind = "object" THEN Quoted(v.keys[k]) \o <<":", SP>> ELSE <<>>)
         \o StringifyAt(v.vals[k], level + 1)
         \o Members(v, k + 1, level)
StringifyAt(v, level) ==
    IF v.kind = "string" THEN Quoted(v.chars)
    ELSE LET open == IF v.kind = "object" THEN "{" ELSE "["
             shut == IF v.kind = "object" THEN "}" ELSE "]"
         IN IF v.vals = <<>> THEN <<open, shut>>
            ELSE <<open>> \o Members(v, 1, level)
                 \o <<NL>> \o Spaces(2 * level) \o <<shut>>

JSONStringify(v) ==
    IF v.kind = "undefined" THEN [defined |-> FALSE, text |-> <<>>]
    ELSE [defined |-> TRUE, text |-> StringifyAt(v, 0)]

(***************************************************************************)
(* The recorded stream.  A record is a tag, a payload and the white space  *)
(* around them; a blank record has neither tag nor payload.                *)
(***************************************************************************)
PrefixLength == 6
SENTINEL == <<"[", "D", "O", "N", "E", "]">>

DataTag == <<"d", "a", "t", "a", ":", SP>>
ShortTag == <<"A", ":">>
DeltaKey == <<"d", "e", "l", "t", "a">>
TextKey == <<"t", "e", "x", "t">>
He == <<"H", "e">>
llo == <<"l", "l", "o">>
Fragments == {He, llo}

\* What the producer writes for an event that carries one text fragment.
EncodeDelta(d) == <<"{">> \o Quoted(DeltaKey) \o <<":">> \o Quoted(d) \o <<"}">>
DeltaEvent(d) == Obj(<<DeltaKey>>, <<Str(d)>>)
Truncated == <<"{", QUOTE>> \o DeltaKey
EmptyObject == <<"{", "}">>

Rec(lead, tag, payload, trail) ==
    [lead |-> lead, tag |-> tag, payload |-> payload, trail |-> trail]
RecordText(r) == r.lead \o r.tag \o r.payload \o r.trail
IsBlank(r) == r.tag = <<>> /\ r.payload = <<>>

RecordChoices ==
    {Rec(<<>>, DataTag, EncodeDelta(d), <<>>) : d \in Fragments}
    \cup {Rec(<<>>, ShortTag, EncodeDelta(d), <<>>) : d \in Fragments}
    \cup {Rec(<<>>, DataTag, SENTINEL, <<>>),
          Rec(<<SP>>, DataTag, SENTINEL, <<NL>>),
          Rec(<<>>, ShortTag, SENTINEL, <<>>),
          Rec(<<>>, DataTag, Truncated, <<>>),
          Rec(<<>>, DataTag, EmptyObject, <<>>),
          Rec(<<>>, <<>>, <<>>, <<>>),
          Rec(<<SP>>, <<>>, <<>>, <<>>)}

Recordings == UNION {[1..n -> RecordChoices] : n \in 1..MaxRecords}

\* The file: the records' texts with a blank line between them.
RECURSIVE Join(_)
Join(rs) ==
    IF Len(rs) = 1 THEN RecordText(rs[1])
    ELSE RecordText(rs[1]) \o <<NL, NL>> \o Join(Tail(rs))

(***************************************************************************)
(* readUIMessageStream, with the merge strategy of the spec's example:     *)
(* the first event establishes the State, a later one appends its `delta`  *)
(* to the State's `text`.  An event of another shape fails the stream.     *)
(***************************************************************************)
IsDelta(e) ==
    /\ e.kind = "object"
    /\ e.keys = <<DeltaKey>>
    /\ e.vals[1].kind = "string"

Merge(state, e) ==
    IF state = Undefined THEN Obj(<<TextKey>>, <<Str(e.vals[1].chars)>>)
    ELSE Obj(<<TextKey>>, <<Str(state.vals[1].chars \o e.vals[1].chars)>>)

(***************************************************************************)
(* The replay script.                                                      *)
(***************************************************************************)
\* An exception: its name, the call that threw it and, for JSON.parse, the
\* text it was given and the 0-based position in that text where parsing
\* stopped, which is the position its message names.
NoError == [name |-> "none", from |-> "none", input |-> <<>>, position |-> 0]
Thrown(name, from) ==
    [name |-> name, from |-> from, input |-> <<>>, position |-> 0]
ParseFailure(text, parsed) ==
    [name |-> "SyntaxError", from |-> "JSON.parse", input |-> text,
     position |-> parsed.next - 1]
NoFile == [exists |-> FALSE, text |-> <<>>]

\* lines 10-14: the payload of one array element; blank elements have none.
Line(part) == Trim(part)

\* Faulty variants of Message: a prefix one character short, and the two-character
\* prefix of the design's example.
MessageOneShort(line) == Slice(line, PrefixLength - 1)
MessageShortTag(line) == Slice(line, Len(ShortTag))
Message(line) == Slice(line, PrefixLength)

\* Faulty variants of Callback: a chunk put at the head of the queue, and a
\* malformed payload skipped instead of thrown.
CallbackPrepends(part, q, isClosed) ==
    LET line == Line(part)
        message == Message(line)
        parsed == JSONParse(message)
        same == [queue |-> q, closed |-> isClosed, thrown |-> NoError]
    IN IF line = <<>> THEN same
       ELSE IF message = SENTINEL THEN
            IF isClosed
            THEN [same EXCEPT !.thrown = Thrown("TypeError", "controller.close")]
            ELSE [same EXCEPT !.closed = TRUE]
       ELSE IF ~parsed.ok
            THEN [same EXCEPT !.thrown = ParseFailure(message, parsed)]
       ELSE IF isClosed
            THEN [same EXCEPT !.thrown = Thrown("TypeError", "controller.enqueue")]
       ELSE [same EXCEPT !.queue = <<parsed.val>> \o q]

CallbackSkipsMalformed(part, q, isClosed) ==
    LET line == Line(part)
        message == Message(line)
        parsed == JSONParse(message)
        same == [queue |-> q, closed |-> isClosed, thrown |-> NoError]
    IN IF line = <<>> THEN same
       ELSE IF message = SENTINEL THEN
            IF isClosed
            THEN [same EXCEPT !.thrown = Thrown("TypeError", "controller.close")]
            ELSE [same EXCEPT !.closed = TRUE]
       ELSE IF ~parsed.ok THEN same
       ELSE IF isClosed
            THEN [same EXCEPT !.thrown = Thrown("TypeError", "controller.enqueue")]
       ELSE [same EXCEPT !.queue = Append(q, parsed.val)]

\* lines 9-20: the callback forEach runs on one element, as a function of
\* the controller's state.  JSON.parse runs before enqueue is called, and
\* close and enqueue throw a TypeError on a controller already closed.
Callback(part, q, isClosed) ==
    LET line == Line(part)
        message == Message(line)
        parsed == JSONParse(message)
        same == [queue |-> q, closed |-> isClosed, thrown |-> NoError]
    IN IF line = <<>> THEN same
       ELSE IF message = SENTINEL THEN
            IF isClosed
            THEN [same EXCEPT !.thrown = Thrown("TypeError", "controller.close")]
            ELSE [same EXCEPT !.closed = TRUE]
       ELSE IF ~parsed.ok
            THEN [same EXCEPT !.thrown = ParseFailure(message, parsed)]
       ELSE IF isClosed
            THEN [same EXCEPT !.thrown = Thrown("TypeError", "controller.enqueue")]
       ELSE [same EXCEPT !.queue = Append(q, parsed.val)]

ReplayIdle ==
    /\ recording = <<>> /\ content = <<>> /\ parts = <<>> /\ idx = 0
    /\ queue = <<>> /\ closed = FALSE /\ acc = Undefined /\ out = <<>>
    /\ outState = "open" /\ last = Undefined /\ pc = "idle"
    /\ err = NoError /\ disk = NoFile

CompareIdle ==
    /\ standard = Undefined /\ result = Undefined /\ diffResult = <<>>
    /\ outer = 0 /\ inner = 0 /\ console = <<>> /\ dpc = "idle"

Init ==
    /\ recording \in Recordings
    /\ content = Join(recording)
    /\ parts = <<>> /\ idx = 0
    /\ queue = <<>> /\ closed = FALSE
    /\ acc = Undefined /\ out = <<>> /\ outState = "open"
    /\ last = Undefined
    /\ pc = "split"
    /\ err = NoError
    /\ disk = NoFile
    /\ CompareIdle

\* line 8: content.split('\n\n')
SplitContent ==
    /\ pc = "split"
    /\ parts' = Split(content)
    /\ pc' = "forEach"
    /\ UNCHANGED <<recording, content, idx, queue, closed, acc, out, outState,
                   last, err, disk, compareVars>>

\* lines 9-20: forEach calls the callback on the next element.  An
\* exception leaves forEach, start and the ReadableStream constructor, and
\* ends the script before the reader loop.
ForEachCallback ==
    /\ pc = "forEach"
    /\ idx < Len(parts)
    /\ LET r == Callback(parts[idx + 1], queue, closed) IN
        /\ idx' = idx + 1
        /\ queue' = r.queue
        /\ closed' = r.closed
        /\ err' = r.thrown
        /\ pc' = IF r.thrown = NoError THEN "forEach" ELSE "crashed"
    /\ UNCHANGED <<recording, content, parts, acc, out, outState, last, disk,
                   compareVars>>

\* lines 21-25: start returns, the stream is handed to readUIMessageStream
\* and the reader loop begins.
StartReturns ==
    /\ pc = "forEach"
    /\ idx = Len(parts)
    /\ pc' = "read"
    /\ UNCHANGED <<recording, content, parts, idx, queue, closed, acc, out,
                   outState, last, err, disk, compareVars>>

\* readUIMessageStream takes the next chunk, merges it and emits the State.
LibraryMerge ==
    /\ pc = "read"
    /\ outState = "open"
    /\ queue # <<>>
    /\ queue' = Tail(queue)
    /\ IF IsDelta(Head(queue))
       THEN /\ acc' = Merge(acc, Head(queue))
            /\ out' = Append(out, acc')
            /\ outState' = outState
       ELSE /\ acc' = acc
            /\ out' = <<>>
            /\ outState' = "errored"
    /\ UNCHANGED <<recording, content, parts, idx, closed, last, pc, err, disk,
                   compareVars>>

\* readUIMessageStream sees the end of its input and closes its output.
LibraryClose ==
    /\ pc = "read"
    /\ outState = "open"
    /\ queue = <<>>
    /\ closed
    /\ outState' = "closed"
    /\ UNCHANGED <<recording, content, parts, idx, queue, closed, acc, out,
                   last, pc, err, disk, compareVars>>

\* Faulty variant of ReadValue: `last` is set once and then kept.
ReadValueKeepsFirst ==
    /\ pc = "read"
    /\ out # <<>>
    /\ last' = IF last = Undefined THEN Head(out) ELSE last
    /\ out' = Tail(out)
    /\ UNCHANGED <<recording, content, parts, idx, queue, closed, acc,
                   outState, pc, err, disk, compareVars>>

\* lines 29-33: reader.read() yields a State, which overwrites `last`.
ReadValue ==
    /\ pc = "read"
    /\ out # <<>>
    /\ last' = Head(out)
    /\ out' = Tail(out)
    /\ UNCHANGED <<recording, content, parts, idx, queue, closed, acc,
                   outState, pc, err, disk, compareVars>>

\* lines 29-32: reader.read() reports done and the loop is left.
ReadDone ==
    /\ pc = "read"
    /\ out = <<>>
    /\ outState = "closed"
    /\ pc' = "write"
    /\ UNCHANGED <<recording, content, parts, idx, queue, closed, acc, out,
                   outState, last, err, disk, compareVars>>

\* line 29: reader.read() rejects on an errored stream; the await throws.
ReadRejected ==
    /\ pc = "read"
    /\ out = <<>>
    /\ outState = "errored"
    /\ pc' = "crashed"
    /\ err' = Thrown("UnsupportedShapeError", "reader.read")
    /\ UNCHANGED <<recording, content, parts, idx, queue, closed, acc, out,
                   outState, last, disk, compareVars>>

\* line 36: fs.writeFileSync('../standard.json', JSON.stringify(last, null, 2)).
\* writeFileSync throws a TypeError when its data is undefined.
WriteSnapshot ==
    /\ pc = "write"
    /\ LET data == JSONStringify(last) IN
        IF data.defined
        THEN /\ disk' = [exists |-> TRUE, text |-> data.text]
             /\ pc' = "exit"
             /\ err' = err
        ELSE /\ disk' = disk
             /\ pc' = "crashed"
             /\ err' = Thrown("TypeError", "fs.writeFileSync")
    /\ UNCHANGED <<recording, content, parts, idx, queue, closed, acc, out,
                   outState, last, compareVars>>

Next ==
    \/ SplitContent
    \/ ForEachCallback
    \/ StartReturns
    \/ LibraryMerge
    \/ LibraryClose
    \/ ReadValue
    \/ ReadDone
    \/ ReadRejected
    \/ WriteSnapshot

Spec == Init /\ [][Next]_vars

(***************************************************************************)
(* Differ.diff of json-diff-kit, as the design describes it, with the      *)
(* options of lines 46-51: modifications shown, arrays paired by           *)
(* position, no depth limit.  A record is {type, lineNumber, text}; its    *)
(* text is the path of the compared place.                                 *)
(***************************************************************************)
DiffRecord(type, path) == [type |-> type, lineNumber |-> 0, text |-> path]

\* The keys of both objects: left's in left's order, then right-only ones.
UnionKeys(l, r) ==
    l.keys \o SelectSeq(r.keys, LAMBDA k : KeyIndex(l.keys, k) = 0)

Max(a, b) == IF a >= b THEN a ELSE b

RECURSIVE Compare(_, _, _)
RECURSIVE CompareKeys(_, _, _, _)
RECURSIVE CompareItems(_, _, _, _)

\* One object key: only right has it, only left has it, or both do.
CompareKey(l, r, k, path) ==
    LET nl == KeyIndex(l.keys, k)
        nr == KeyIndex(r.keys, k)
    IN IF nl = 0 THEN <<DiffRecord("add", Append(path, k))>>
       ELSE IF nr = 0 THEN <<DiffRecord("remove", Append(path, k))>>
       ELSE Compare(l.vals[nl], r.vals[nr], Append(path, k))

\* One array position: past the end of left, past the end of right, or in
\* both.
CompareItem(l, r, n, path) ==
    IF n > Len(l.vals) THEN <<DiffRecord("add", Append(path, <<"#", ToString(n)>>))>>
    ELSE IF n > Len(r.vals) THEN <<DiffRecord("remove", Append(path, <<"#", ToString(n)>>))>>
    ELSE Compare(l.vals[n], r.vals[n], Append(path, <<"#", ToString(n)>>))

CompareKeys(l, r, ks, path) ==
    IF ks = <<>> THEN <<>>
    ELSE CompareKey(l, r, Head(ks), path) \o CompareKeys(l, r, Tail(ks), path)

CompareItems(l, r, n, path) ==
    IF n > Max(Len(l.vals), Len(r.vals)) THEN <<>>
    ELSE CompareItem(l, r, n, path) \o CompareItems(l, r, n + 1, path)

\* The records of comparing two values found at `path`.
Compare(l, r, path) ==
    IF l.kind # r.kind
    THEN <<DiffRecord("remove", path), DiffRecord("add", path)>>
    ELSE IF l.kind = "object" THEN CompareKeys(l, r, UnionKeys(l, r), path)
    ELSE IF l.kind = "array" THEN CompareItems(l, r, 1, path)
    ELSE IF l = r THEN <<DiffRecord("equal", path)>>
    ELSE <<DiffRecord("modify", path)>>

\* The top-level comparison units: the keys of two objects, the positions
\* of two arrays, else the two values themselves.
Units(l, r) ==
    IF l.kind = r.kind /\ l.kind = "object"
    THEN LET ks == UnionKeys(l, r) IN
         [n \in 1..Len(ks) |-> CompareKey(l, r, ks[n], <<>>)]
    ELSE IF l.kind = r.kind /\ l.kind = "array"
    THEN [n \in 1..Max(Len(l.vals), Len(r.vals)) |-> CompareItem(l, r, n, <<>>)]
    ELSE <<Compare(l, r, <<>>)>>

\* The running line counter: records are numbered in the order emitted.
RECURSIVE Numbered(_, _)
Numbered(units, before) ==
    IF units = <<>> THEN <<>>
    ELSE LET u == Head(units) IN
         <<[j \in 1..Len(u) |-> [u[j] EXCEPT !.lineNumber = before + j]]>>
         \o Numbered(Tail(units), before + Len(u))

Diff(l, r) == Numbered(Units(l, r), 0)

(***************************************************************************)
(* The compare script.                                                     *)
(***************************************************************************)
Hello == <<"H", "e", "l", "l", "o">>
Hallo == <<"H", "a", "l", "l", "o">>
Leaves == {Str(Hello), Str(Hallo)}
KeyLists == {<<>>, <<TextKey>>, <<DeltaKey>>, <<TextKey, DeltaKey>>}

ObjectsOver(values) ==
    UNION {{Obj(ks, vs) : vs \in [1..Len(ks) -> values]} : ks \in KeyLists}
ArraysOver(values) ==
    UNION {{Arr(vs) : vs \in [1..n -> values]} : n \in 0..MaxItems}

Shallow == ObjectsOver(Leaves) \cup ArraysOver(Leaves)
Nested == {Obj(<<TextKey>>, <<t>>) : t \in Shallow} \cup {Arr(<<t>>) : t \in Shallow}
Mixed == {Obj(<<TextKey, DeltaKey>>, <<a, b>>) : a \in ArraysOver(Leaves), b \in Leaves}
Trees == Leaves \cup Shallow \cup Nested \cup Mixed

\* lines 42-43: a snapshot file holds the pretty-printed tree and is read
\* back with JSON.parse.
ReadSnapshot(tree) == JSONParse(JSONStringify(tree).text).val

\* lines 55-56: what console.log prints for one record, if anything.
FormatLine(r) == <<r.lineNumber, ":", r.type, SP, r.text>>

\* Faulty variants of Printed: only `modify` records printed, and every record
\* printed.
PrintedModifyOnly(r) == IF r.type = "modify" THEN <<FormatLine(r)>> ELSE <<>>
PrintedAlways(r) == <<FormatLine(r)>>
Printed(r) == IF r.type # "equal" THEN <<FormatLine(r)>> ELSE <<>>

CompareInit ==
    /\ ReplayIdle
    /\ \E x \in Trees, y \in Trees :
        /\ standard = ReadSnapshot(x)
        /\ result = ReadSnapshot(y)
    /\ diffResult = <<>>
    /\ outer = 0 /\ inner = 0
    /\ console = <<>>
    /\ dpc = "diff"

\* line 53: differ.diff(standard, result)
CallDiff ==
    /\ dpc = "diff"
    /\ diffResult' = Diff(standard, result)
    /\ dpc' = "report"
    /\ UNCHANGED <<standard, result, outer, inner, console, replayVars>>

SequenceDone == IF outer = 0 THEN TRUE ELSE inner = Len(diffResult[outer])

\* line 53: the outer forEach calls its callback on the next sequence.
EnterSequence ==
    /\ dpc = "report"
    /\ SequenceDone
    /\ outer < Len(diffResult)
    /\ outer' = outer + 1
    /\ inner' = 0
    /\ UNCHANGED <<standard, result, diffResult, console, dpc, replayVars>>

\* lines 54-58: the inner forEach calls its callback on the next record.
VisitRecord ==
    /\ dpc = "report"
    /\ outer >= 1
    /\ inner < Len(diffResult[outer])
    /\ console' = console \o Printed(diffResult[outer][inner + 1])
    /\ inner' = inner + 1
    /\ UNCHANGED <<standard, result, diffResult, outer, dpc, replayVars>>

\* line 59: both loops are through.
ReportEnds ==
    /\ dpc = "report"
    /\ SequenceDone
    /\ outer = Len(diffResult)
    /\ dpc' = "end"
    /\ UNCHANGED <<standard, result, diffResult, outer, inner, console,
                   replayVars>>

CompareNext ==
    \/ CallDiff
    \/ EnterSequence
    \/ VisitRecord
    \/ ReportEnds

CompareSpec == CompareInit /\ [][CompareNext]_vars

(***************************************************************************)
(* The recording read as the design reads it: a record's frame is its      *)
(* text, white space around it aside, after the first six characters.      *)
(***************************************************************************)
Visible(r) == r.tag \o r.payload
AfterPrefix(r) == [i \in 1..(Len(Visible(r)) - 6) |-> Visible(r)[i + 6]]

IsTerminalRecord(r) == ~IsBlank(r) /\ AfterPrefix(r) = SENTINEL
IsDeltaRecord(r) == ~IsBlank(r) /\ \E d \in Fragments : AfterPrefix(r) = EncodeDelta(d)
IsEventRecord(r) == IsDeltaRecord(r) \/ (~IsBlank(r) /\ AfterPrefix(r) = EmptyObject)
IsMalformedRecord(r) == ~IsBlank(r) /\ ~IsTerminalRecord(r) /\ ~IsEventRecord(r)

FragmentOf(r) == CHOOSE d \in Fragments : AfterPrefix(r) = EncodeDelta(d)
EventOf(r) == IF IsDeltaRecord(r) THEN DeltaEvent(FragmentOf(r)) ELSE Obj(<<>>, <<>>)

Frames(rs) == SelectSeq(rs, LAMBDA r : ~IsBlank(r))
DeltasOf(rs) == SelectSeq(rs, IsDeltaRecord)
EventsOf(rs) == LET es == SelectSeq(rs, IsEventRecord) IN [i \in 1..Len(es) |-> EventOf(es[i])]

\* The index of the first record of rs for which P holds, or 0.
First(rs, P(_)) ==
    LET hits == {i \in 1..Len(rs) : P(rs[i])} IN
    IF hits = {} THEN 0 ELSE CHOOSE i \in hits : \A j \in hits : i <= j

\* Delta events, blank records between them, and the sentinel as last frame.
WellFormed(rs) ==
    LET fs == Frames(rs) IN
    /\ fs # <<>>
    /\ IsTerminalRecord(fs[Len(fs)])
    /\ \A i \in 1..(Len(fs) - 1) : IsDeltaRecord(fs[i])

\* Delta events and blank records only: the sentinel is missing.
EventsOnly(rs) == \A i \in 1..Len(rs) : IsBlank(rs[i]) \/ IsDeltaRecord(rs[i])

\* The first sentinel follows delta events only, and further delta events
\* or sentinels follow it.
SentinelThenMore(rs) ==
    LET k == First(rs, IsTerminalRecord) IN
    /\ k > 0
    /\ \A i \in 1..(k - 1) : IsBlank(rs[i]) \/ IsDeltaRecord(rs[i])
    /\ \A j \in (k + 1)..Len(rs) :
          IsBlank(rs[j]) \/ IsDeltaRecord(rs[j]) \/ IsTerminalRecord(rs[j])
    /\ \E j \in (k + 1)..Len(rs) : ~IsBlank(rs[j])

RECURSIVE TextOf(_)
TextOf(ds) == IF ds = <<>> THEN <<>> ELSE FragmentOf(Head(ds)) \o TextOf(Tail(ds))

\* The State after the delta events ds, merged once each and in order.
StateAfter(ds) ==
    IF ds = <<>> THEN Undefined ELSE Obj(<<TextKey>>, <<Str(TextOf(ds))>>)

\* The script has ended: it returned, or an exception went uncaught.
Ended == pc \in {"exit", "crashed"}

\* The script waits on reader.read() and nothing can settle it: no State
\* is queued, and readUIMessageStream has no chunk and no end of input.
Waiting ==
    /\ pc = "read"
    /\ out = <<>> /\ outState = "open"
    /\ queue = <<>> /\ ~closed

\* No step of the script or the library can be taken.
Stopped == Ended \/ Waiting

\* The reader loop has been left.
LoopLeft == pc \in {"write", "exit"} \/ (pc = "crashed" /\ err.from = "fs.writeFileSync")

\* The 0-based offset in content at which array element n starts.
RECURSIVE PartOffset(_)
PartOffset(n) == IF n <= 1 THEN 0 ELSE PartOffset(n - 1) + Len(parts[n - 1]) + 2

(***************************************************************************)
(* C1.  For a well-formed recording (delta events, then the sentinel) the  *)
(* reduction terminates: until the reader loop is left the script never    *)
(* stops (and every step consumes a record, a chunk or a State, so there   *)
(* are finitely many).  The State the loop leaves in       *)
(* `last` is the one obtained by merging every event before the sentinel   *)
(* once and in emission order: its text is the fragments concatenated in   *)
(* that order.                                                             *)
(***************************************************************************)
C1_ReduceWellFormed ==
    WellFormed(recording) =>
        /\ ~LoopLeft => ~Stopped
        /\ LoopLeft => last = StateAfter(DeltasOf(recording))

C1_Witness ==
    /\ WellFormed(recording)
    /\ Len(DeltasOf(recording)) = 2
    /\ pc = "write"
    /\ last = Obj(<<TextKey>>, <<Str(He \o llo)>>)

(***************************************************************************)
(* C2.  A recording of delta events without sentinel makes the reduction   *)
(* fail with IncompleteStreamError: no snapshot is written, and when the   *)
(* script has stopped it has failed with that error.                       *)
(***************************************************************************)
C2_MissingSentinelFails ==
    EventsOnly(recording) =>
        /\ ~disk.exists
        /\ Stopped => (pc = "crashed" /\ err.name = "IncompleteStreamError")

(***************************************************************************)
(* C3.  Once the sentinel is consumed no later record is enqueued or       *)
(* merged, and the reduction completes with the State accumulated up to    *)
(* the sentinel.                                                           *)
(***************************************************************************)
C3_NothingAfterSentinel ==
    SentinelThenMore(recording) =>
        LET before == SubSeq(recording, 1, First(recording, IsTerminalRecord) - 1) IN
        /\ Len(queue) <= Len(DeltasOf(before))
        /\ Stopped => (LoopLeft /\ last = StateAfter(DeltasOf(before)))

C5_FramesInOrder ==
    pc \notin {"split", "idle"} =>
        LET seen == SubSeq(recording, 1, idx)
            earlier == SubSeq(recording, 1, idx - 1)
        IN
        /\ Len(parts) = Len(recording)
        /\ pc = "forEach" =>
            /\ queue = EventsOf(seen)
            /\ closed <=> (First(seen, IsTerminalRecord) > 0)
        /\ (pc = "crashed" /\ err.from = "JSON.parse") =>
            /\ IsMalformedRecord(recording[idx])
            /\ err.input = AfterPrefix(recording[idx])
            /\ queue = EventsOf(earlier)
        /\ (pc = "crashed" /\ err.from \in {"controller.close", "controller.enqueue"}) =>
            /\ First(earlier, IsTerminalRecord) > 0
            /\ IF err.from = "controller.close"
               THEN IsTerminalRecord(recording[idx])
               ELSE IsEventRecord(recording[idx])
            /\ queue = EventsOf(earlier)

C5_Witness ==
    /\ pc = "forEach" /\ idx = Len(parts) /\ idx = MaxRecords
    /\ IsBlank(recording[1]) /\ recording[1].lead # <<>>
    /\ IsDeltaRecord(recording[2])
    /\ IsTerminalRecord(recording[3]) /\ recording[3].trail # <<>>
    /\ closed /\ Len(queue) = 1

(***************************************************************************)
(* C6.  Failure and success are distinct channels: a recording that is     *)
(* not well formed never has a snapshot written, and the script ends with  *)
(* an uncaught exception only for such a recording, so that a failure is   *)
(* never what a legitimately short or empty stream produces.               *)
(***************************************************************************)
C6_DistinctChannels ==
    /\ ~WellFormed(recording) => ~disk.exists
    /\ pc = "crashed" => ~WellFormed(recording)

(***************************************************************************)
(* C10.  The snapshot is written by one step only, taken after             *)
(* reader.read() reported done and never again once the file exists, and   *)
(* it holds the last State readUIMessageStream emitted: every State was    *)
(* read, `last` is the library's final State and not an earlier one, and   *)
(* reading the file back gives `last`.                                     *)
(***************************************************************************)
SnapshotState ==
    /\ disk.exists <=> pc = "exit"
    /\ pc \in {"write", "exit"} =>
        /\ outState = "closed" /\ out = <<>> /\ queue = <<>>
        /\ last = acc
    /\ pc = "exit" =>
        /\ JSONParse(disk.text).ok
        /\ JSONParse(disk.text).val = last

SnapshotStep ==
    disk' # disk => (pc = "write" /\ ~disk.exists /\ disk'.exists /\ pc' = "exit")

C10_SnapshotIsLastState == []SnapshotState /\ [][SnapshotStep]_vars

C10_Witness ==
    /\ pc = "exit"
    /\ Len(DeltasOf(recording)) = 2
    /\ disk.text = StringifyAt(Obj(<<TextKey>>, <<Str(Hello)>>), 0)

(***************************************************************************)
(* The records of a diff result, outer sequence then inner sequence.       *)
(***************************************************************************)
RECURSIVE Flat(_)
Flat(seqs) == IF seqs = <<>> THEN <<>> ELSE Head(seqs) \o Flat(Tail(seqs))

\* The records the two loops have visited so far.
Visited ==
    IF outer = 0 THEN <<>>
    ELSE Flat(SubSeq(diffResult, 1, outer - 1)) \o SubSeq(diffResult[outer], 1, inner)

NotEqual(r) == r.type # "equal"

(***************************************************************************)
(* C7.  The report holds one line `<lineNumber>:<type> <text>` for each    *)
(* record visited whose type is not `equal`, in the order of the diff      *)
(* result (outer sequence, then inner sequence), and nothing for an        *)
(* `equal` record; at the end every record has been visited, so the        *)
(* number of lines is the number of records that are not `equal`.          *)
(***************************************************************************)
C7_ReportLines ==
    LET shown == SelectSeq(Visited, NotEqual) IN
    /\ Len(console) = Len(shown)
    /\ \A n \in 1..Len(shown) :
         console[n] = <<shown[n].lineNumber, ":", shown[n].type, " ", shown[n].text>>
    /\ dpc = "end" => Visited = Flat(diffResult)

C7_Witness ==
    /\ dpc = "end"
    /\ Len(diffResult) >= 2
    /\ Len(console) >= 2
    /\ console[1][3] # console[2][3]
    /\ \E n \in 1..Len(Flat(diffResult)) : Flat(diffResult)[n].type = "equal"

(***************************************************************************)
(* C8.  Comparing a tree to itself yields only `equal` records, and the    *)
(* report prints no line.                                                  *)
(***************************************************************************)
C8_DiffOfSelf ==
    standard = result =>
        /\ \A n \in 1..Len(Flat(diffResult)) : Flat(diffResult)[n].type = "equal"
        /\ console = <<>>

C8_Witness ==
    /\ dpc = "end"
    /\ standard = result
    /\ Len(diffResult) >= 2
    /\ Len(Flat(diffResult)) >= 3

(***************************************************************************)
(* C9, as claimed.  The recording A:{"delta":"He"}, A:{"delta":"llo"},     *)
(* A:[DONE] is reduced to {"text":"Hello"}, and the snapshot differs from  *)
(* {"text":"Hello"} by one `equal` record and from {"text":"Hallo"} by     *)
(* one `modify` record for `text`.                                         *)
(***************************************************************************)
ExampleStream(tag) ==
    <<Rec(<<>>, tag, EncodeDelta(He), <<>>),
      Rec(<<>>, tag, EncodeDelta(llo), <<>>),
      Rec(<<>>, tag, SENTINEL, <<>>)>>

TextState(cs) == Obj(<<TextKey>>, <<Str(cs)>>)

\* The script ran to its end, `last` and the snapshot read back are
\* {"text":"Hello"}, and the two diffs are as the example says.
ExampleOutcome ==
    /\ pc = "exit"
    /\ last = TextState(Hello)
    /\ disk.exists
    /\ LET snapshot == JSONParse(disk.text).val IN
        /\ snapshot = last
        /\ Diff(snapshot, TextState(Hello))
             = <<<<[type |-> "equal", lineNumber |-> 1, text |-> <<TextKey>>]>>>>
        /\ Diff(snapshot, TextState(Hallo))
             = <<<<[type |-> "modify", lineNumber |-> 1, text |-> <<TextKey>>]>>>>

C9_ExampleWithShortTag ==
    (recording = ExampleStream(ShortTag) /\ Stopped) => ExampleOutcome

(***************************************************************************)
(* C9, amended.  With the six-character prefix `data: ` on each record     *)
(* the example holds: the script does not fail or wait, and when it has    *)
(* stopped the State is {"text":"Hello"} and the two diffs are one         *)
(* `equal` record and one `modify` record for `text`.                      *)
(***************************************************************************)
C9_ExampleWithDataTag ==
    recording = ExampleStream(DataTag) =>
        /\ pc # "crashed" /\ ~Waiting
        /\ Stopped => ExampleOutcome

C9_Witness ==
    /\ recording = ExampleStream(DataTag)
    /\ Stopped
    /\ disk.text = StringifyAt(TextState(Hello), 0)

====
